---- MODULE Spec2Model ----
(***************************************************************************)
(* Model of routh_hurwitz_symbolic(coeffs) from                            *)
(* Classical_Control_System/Stability_Analysis/routh_hurwitz_criterion.ipynb *)
(*                                                                         *)
(* The function builds the Routh array of a polynomial given by its        *)
(* coefficients (highest power first) and counts the sign changes of the   *)
(* first column.  Entries are sympy expressions: exact rationals, or       *)
(* rational functions of the symbol eps once a zero pivot was met.  They   *)
(* are modelled as quotients num/den of integer polynomials in eps, kept   *)
(* in lowest terms (what simplify() yields up to presentation).            *)
(***************************************************************************)
EXTENDS Integers, Sequences, FiniteSets, TLC

\* ------------------------------------------------------------------ bounds
MaxN == 4          \* longest enumerated coefficient sequence
MaxCoef == 2       \* enumerated coefficients range over -MaxCoef..MaxCoef

\* 1/EpsInv is the value substituted for eps before the limit is taken
\* (val.subs(eps, 1e-6)).
EpsInv == 1000000

\* ------------------------------------------------------- integer helpers
Abs(x) == IF x < 0 THEN -x ELSE x

Sgn(x) == IF x > 0 THEN 1 ELSE IF x < 0 THEN -1 ELSE 0

Max(x, y) == IF x >= y THEN x ELSE y

RECURSIVE Gcd(_, _)
Gcd(x, y) == IF y = 0 THEN x ELSE Gcd(y, x % y)

\* ------------------------------------------- integer polynomials in eps
\* A polynomial is the sequence of its coefficients, lowest power first,
\* without trailing zeros; << >> is the zero polynomial.
RECURSIVE PTrim(_)
PTrim(p) ==
  IF p = << >> THEN << >>
  ELSE IF p[Len(p)] = 0 THEN PTrim(SubSeq(p, 1, Len(p) - 1)) ELSE p

PCoef(p, k) == IF k >= 1 /\ k <= Len(p) THEN p[k] ELSE 0

PAdd(p, q) == PTrim([k \in 1..Max(Len(p), Len(q)) |-> PCoef(p, k) + PCoef(q, k)])

PScale(c, p) == PTrim([k \in 1..Len(p) |-> c * p[k]])

PShift(p, s) == IF p = << >> THEN << >> ELSE [k \in 1..(Len(p) + s) |-> IF k <= s THEN 0 ELSE p[k - s]]

RECURSIVE ConvSum(_, _, _, _)
ConvSum(p, q, k, m) ==
  IF m > Len(p) THEN 0
  ELSE p[m] * PCoef(q, k + 1 - m) + ConvSum(p, q, k, m + 1)

PMul(p, q) ==
  IF p = << >> \/ q = << >> THEN << >>
  ELSE PTrim([k \in 1..(Len(p) + Len(q) - 1) |-> ConvSum(p, q, k, 1)])

RECURSIVE PContentFrom(_, _)
PContentFrom(p, k) == IF k > Len(p) THEN 0 ELSE Gcd(Abs(p[k]), PContentFrom(p, k + 1))

PContent(p) == PContentFrom(p, 1)

PDivInt(p, c) == [k \in 1..Len(p) |-> p[k] \div c]

PPrim(p) == IF p = << >> THEN << >> ELSE PDivInt(p, PContent(p))

\* remainder of f by g up to a non-zero rational factor (g # 0)
RECURSIVE PPseudoRem(_, _)
PPseudoRem(f, g) ==
  IF Len(f) < Len(g) THEN f
  ELSE LET lf == f[Len(f)]
           lg == g[Len(g)]
           l  == Gcd(Abs(lf), Abs(lg))
           r  == PAdd(PScale(lg \div l, f),
                      PScale(-(lf \div l), PShift(g, Len(f) - Len(g))))
       IN  PPseudoRem(PPrim(r), g)

RECURSIVE PGcd(_, _)
PGcd(f, g) == IF g = << >> THEN PPrim(f) ELSE PGcd(g, PPseudoRem(f, g))

\* quotient of p by g when g divides p over the integers
RECURSIVE PDivExact(_, _)
PDivExact(p, g) ==
  IF Len(p) < Len(g) THEN << >>
  ELSE LET q == p[Len(p)] \div g[Len(g)]
           s == Len(p) - Len(g)
           r == PAdd(p, PScale(-q, PShift(g, s)))
       IN  PAdd(PShift(<<q>>, s), PDivExact(r, g))

\* ------------------------------------------- sympy expressions (entries)
Zero == [num |-> << >>, den |-> <<1>>]

\* zoo / nan: what sympy yields for a division by an exact zero
NaN == [num |-> << >>, den |-> << >>]

Const(k) == IF k = 0 THEN Zero ELSE [num |-> <<k>>, den |-> <<1>>]

eps == [num |-> <<0, 1>>, den |-> <<1>>]

Normalize(n, d) ==
  IF d = << >> THEN NaN
  ELSE IF n = << >> THEN Zero
  ELSE IF Len(n) = 1 /\ Len(d) = 1
  THEN LET c == Gcd(Abs(n[1]), Abs(d[1]))
       IN  [num |-> <<(Sgn(d[1]) * n[1]) \div c>>, den |-> <<Abs(d[1]) \div c>>]
  ELSE LET g  == PGcd(n, d)
           n1 == PDivExact(n, g)
           d1 == PDivExact(d, g)
           c  == Gcd(PContent(n1), PContent(d1))
           s  == Sgn(d1[Len(d1)])
       IN  [num |-> PScale(s, PDivInt(n1, c)), den |-> PScale(s, PDivInt(d1, c))]

RMul(x, y) == Normalize(PMul(x.num, y.num), PMul(x.den, y.den))

RSub(x, y) == Normalize(PAdd(PMul(x.num, y.den), PScale(-1, PMul(y.num, x.den))),
                        PMul(x.den, y.den))

RDiv(x, y) == Normalize(PMul(x.num, y.den), PMul(x.den, y.num))

IsZero(x) == x.num = << >> /\ x.den # << >>

\* sign of the polynomial p at eps = 1/EpsInv, by carrying from the highest
\* power down: p(1/K) = I + f with I an integer and 0 <= f < 1
RECURSIVE SignAtFrom(_, _, _, _)
SignAtFrom(p, k, carry, frac) ==
  LET v == p[k] + carry
  IN  IF k = 1
      THEN IF v # 0 THEN Sgn(v) ELSE IF frac THEN 1 ELSE 0
      ELSE SignAtFrom(p, k - 1, v \div EpsInv, frac \/ (v % EpsInv # 0))

PSignAtEps(p) == IF p = << >> THEN 0 ELSE SignAtFrom(p, Len(p), 0, FALSE)

\* sign of x after subs(eps, 1e-6): limit() of the resulting number is the
\* number itself, sign() gives -1, 0 or 1
SignAtEps(x) == PSignAtEps(x.num) * PSignAtEps(x.den)

\* ----------------------------------------------------------------- inputs
RECURSIVE SeqsOfLen(_, _)
SeqsOfLen(S, k) ==
  IF k = 0 THEN {<< >>}
  ELSE {Append(s, x) : s \in SeqsOfLen(S, k - 1), x \in S}

Enumerated == UNION {SeqsOfLen((-MaxCoef)..MaxCoef, k) : k \in 0..MaxN}

\* the notebook's own runs and its worked example
Example1 == <<1, -3, 2>>
Example2 == <<1, 2, 3, 4, 5>>
Example3 == <<1, 6, 15, 20, 15, 6, 1>>
ExampleDoc == <<1, 3, 3, 1>>

\* cubics a0 s^3 + b s + a3 whose middle coefficient reaches 1/1e-6
Large ==
  {<<a0, 0, b, a3>> : a0 \in {-1, 1},
                      b \in {-2 * EpsInv, -EpsInv, EpsInv, 2 * EpsInv},
                      a3 \in {-1, 1}}

Inputs == Enumerated \cup {Example1, Example2, Example3, ExampleDoc} \cup Large

\* ------------------------------------------------------------------ state
VARIABLES
  coeffs,        \* the argument
  pc,            \* "start", "fill", "signs", "done", "error"
  routh,         \* the array, a sequence of rows (row i of the code is routh[i+1])
  i,             \* index (0-based, as in the code) of the next row to compute
  pivots,        \* history: the divisor c used for each computed row
  computed,      \* history: each computed row as it stood before the row-of-zeros test
  signs,         \* the code's list signs
  sign_changes,  \* the returned count
  err            \* name of the exception raised, "" if none

vars == <<coeffs, pc, routh, i, pivots, computed, signs, sign_changes, err>>

n == Len(coeffs)

rows == n

cols == (n + 1) \div 2

\* coeffs[::2] and coeffs[1::2], sympified
EvenSlice == [k \in 1..((n + 1) \div 2) |-> Const(coeffs[2 * k - 1])]

OddSlice == [k \in 1..(n \div 2) |-> Const(coeffs[2 * k])]

\* row + [0]*(cols - len(row))
Pad(row, w) == row \o [k \in 1..(w - Len(row)) |-> Zero]

\* routh[r][c] with the code's 0-based indices
At(A, r, c) == A[r + 1][c + 1]

Init ==
  /\ coeffs \in Inputs
  /\ pc = "start"
  /\ routh = << >>
  /\ i = 0
  /\ pivots = << >>
  /\ computed = << >>
  /\ signs = << >>
  /\ sign_changes = 0
  /\ err = ""

\* routh[0] = ... on an empty list (n = 0), or routh[1] = ... on a one-row
\* list (n = 1): list assignment index out of range
SetupFails ==
  /\ pc = "start"
  /\ n < 2
  /\ pc' = "error"
  /\ err' = "IndexError"
  /\ routh' = IF n = 0 THEN << >> ELSE <<Pad(EvenSlice, cols)>>
  /\ UNCHANGED <<coeffs, i, pivots, computed, signs, sign_changes>>

SetupRows ==
  /\ pc = "start"
  /\ n >= 2
  /\ routh' = [r \in 1..rows |->
                 IF r = 1 THEN Pad(EvenSlice, cols)
                 ELSE IF r = 2 THEN Pad(OddSlice, cols)
                 ELSE [k \in 1..cols |-> Zero]]
  /\ i' = 2
  /\ pc' = IF 2 < rows THEN "fill" ELSE "signs"
  /\ UNCHANGED <<coeffs, pivots, computed, signs, sign_changes, err>>

Pivot_Unguarded(c) == c

\* c = c if c != 0 else eps
Pivot(c) == IF IsZero(c) THEN eps ELSE c

Elem_NoDivision(a, b, c, d) == RSub(RMul(c, b), RMul(a, d))

Elem_SwappedRows(a, b, c, d) == RDiv(RSub(RMul(c, d), RMul(a, b)), c)

\* simplify(((c * b) - (a * d)) / c)
Elem(a, b, c, d) == RDiv(RSub(RMul(c, b), RMul(a, d)), c)

\* row i after the inner loop over j in range(cols - 1); the last column
\* keeps its initial 0
ComputedRow(A, r) ==
  [k \in 1..cols |->
     IF k = cols THEN At(A, r, cols - 1)
     ELSE Elem(At(A, r - 2, 0), At(A, r - 2, k), Pivot(At(A, r - 1, 0)), At(A, r - 1, k))]

\* all(r == 0 for r in routh[i])
AllZero(row) == \A k \in 1..Len(row) : IsZero(row[k])

AuxPoly_UnitStep(prev_row, order) ==
  [k \in 1..Len(prev_row) |-> RMul(prev_row[k], Const(order - (k - 1)))]

\* aux_poly = [prev_row[k] * (order - 2 * k) for k in range(len(prev_row))]
AuxPoly(prev_row, order) ==
  [k \in 1..Len(prev_row) |-> RMul(prev_row[k], Const(order - 2 * (k - 1)))]

FillRow ==
  /\ pc = "fill"
  /\ i < rows
  /\ LET row == ComputedRow(routh, i)
         new == IF AllZero(row) THEN Pad(AuxPoly(routh[i], n - i), cols) ELSE row
     IN  /\ routh' = [routh EXCEPT ![i + 1] = new]
         /\ computed' = Append(computed, row)
  /\ pivots' = Append(pivots, Pivot(At(routh, i - 1, 0)))
  /\ i' = i + 1
  /\ pc' = IF i + 1 < rows THEN "fill" ELSE "signs"
  /\ UNCHANGED <<coeffs, signs, sign_changes, err>>

\* first_col = [row[0] for row in routh]
FirstCol(A) == [r \in 1..Len(A) |-> A[r][1]]

\* signs = [int(sign(x)) for x in first_col_eval if x != 0]
RECURSIVE NonZeroSigns(_)
NonZeroSigns(col) ==
  IF col = << >> THEN << >>
  ELSE LET s == SignAtEps(Head(col))
       IN  IF s # 0 THEN <<s>> \o NonZeroSigns(Tail(col)) ELSE NonZeroSigns(Tail(col))

\* sum(signs[i] != signs[i + 1] for i in range(len(signs) - 1))
SignChanges(s) == Cardinality({k \in 1..(Len(s) - 1) : s[k] # s[k + 1]})

CountSigns ==
  /\ pc = "signs"
  /\ signs' = NonZeroSigns(FirstCol(routh))
  /\ sign_changes' = SignChanges(signs')
  /\ pc' = "done"
  /\ UNCHANGED <<coeffs, routh, i, pivots, computed, err>>

Next == SetupFails \/ SetupRows \/ FillRow \/ CountSigns

Spec == Init /\ [][Next]_vars

\* ============================================================ properties
Returned == pc = "done"

Raised == pc = "error"

Ints(row) == [k \in 1..Len(row) |-> Const(row[k])]

Frac(p, q) == [num |-> <<p>>, den |-> <<q>>]

DependsOnEps(x) == Len(x.num) > 1 \/ Len(x.den) > 1

\* sign of the lowest-order non-zero coefficient: the sign of p(eps) for all
\* small enough eps > 0
RECURSIVE PLimitSign(_)
PLimitSign(p) ==
  IF p = << >> THEN 0 ELSE IF Head(p) # 0 THEN Sgn(Head(p)) ELSE PLimitSign(Tail(p))

\* sign of the one-sided limit of x as eps -> 0+ (of x itself when it is free
\* of eps)
LimitSign(x) == PLimitSign(x.num) * PLimitSign(x.den)

\* sympy keeps the model away from zoo/nan: no entry is a division by an exact
\* zero and no first-column denominator vanishes at the substituted value
EvalDefined ==
  /\ \A r \in 1..Len(routh) : \A k \in 1..Len(routh[r]) : routh[r][k] # NaN
  /\ \A r \in 1..Len(routh) : PSignAtEps(routh[r][1].den) # 0

\* ---------------------------------------------------------------------- C1
\* C1: an empty coefficient sequence, or one whose leading coefficient is
\* zero, makes the call fail with InvalidPolynomial: nothing is returned and
\* no other error is raised.
C1_InvalidPolynomial ==
  (pc # "start" /\ (n = 0 \/ coeffs[1] = 0)) =>
     (~Returned /\ (Raised => err = "InvalidPolynomial"))

\* ---------------------------------------------------------------------- C2
\* C2: every sequence of length n >= 1 with coeffs[0] # 0 completes without
\* error; the array has n rows and ceil(n/2) columns, row 0 holds the
\* coefficients at even offsets, row 1 those at odd offsets, zero-padded, and
\* the count is a non-negative integer.
C2_ShapeAndFirstRows ==
  (n >= 1 /\ coeffs[1] # 0) =>
     /\ ~Raised
     /\ Returned =>
          /\ Len(routh) = n
          /\ \A r \in 1..n : Len(routh[r]) = (n + 1) \div 2
          /\ \A k \in 1..((n + 1) \div 2) :
               /\ routh[1][k] = (IF 2 * k - 1 <= n THEN Const(coeffs[2 * k - 1]) ELSE Zero)
               /\ n >= 2 => routh[2][k] = (IF 2 * k <= n THEN Const(coeffs[2 * k]) ELSE Zero)
          /\ sign_changes \in Nat

\* ---------------------------------------------------------------------- C3
\* a polynomial of degree 1 or 2 has all its roots in the open left half
\* plane iff its coefficients are all non-zero and of one sign
SameSignNonZero(cs) ==
  \/ \A k \in 1..Len(cs) : cs[k] > 0
  \/ \A k \in 1..Len(cs) : cs[k] < 0

\* C3: for valid input of degree 1 or 2 the returned count is 0 iff the
\* polynomial is stable (all roots in the open left half plane).
C3_ZeroIffStable ==
  (Returned /\ n \in {2, 3} /\ coeffs[1] # 0) =>
     ((sign_changes = 0) <=> SameSignNonZero(coeffs))

\* ---------------------------------------------------------------------- C4
\* number of roots with positive real part of a0 s^2 + a1 s + a2, a0 > 0
Rhp2(a0, a1, a2) ==
  IF a2 < 0 THEN 1
  ELSE IF a2 > 0 THEN (IF a1 < 0 THEN 2 ELSE 0)
  ELSE (IF a1 < 0 THEN 1 ELSE 0)

\* the same for a0 s^3 + a1 s^2 + a2 s + a3, a0 > 0 (Hurwitz determinants; a
\* root pair on the imaginary axis needs a1 a2 = a0 a3 with a2 > 0)
Rhp3(a0, a1, a2, a3) ==
  LET h == a1 * a2 - a0 * a3
  IN  IF a3 = 0 THEN Rhp2(a0, a1, a2)
      ELSE IF h = 0 /\ a2 > 0 THEN (IF a1 < 0 THEN 1 ELSE 0)
      ELSE IF a3 > 0 THEN (IF a1 > 0 /\ a2 > 0 /\ h > 0 THEN 0 ELSE 2)
      ELSE (IF a1 < 0 /\ a2 > 0 /\ h < 0 THEN 3 ELSE 1)

RhpRoots(cs) ==
  LET g == Sgn(cs[1])
  IN  IF Len(cs) = 2 THEN (IF g * cs[2] < 0 THEN 1 ELSE 0)
      ELSE IF Len(cs) = 3 THEN Rhp2(g * cs[1], g * cs[2], g * cs[3])
      ELSE Rhp3(g * cs[1], g * cs[2], g * cs[3], g * cs[4])

\* C4: the returned count is the number of roots with positive real part
\* (stated for degrees 1 to 3, where that number has a closed form).
C4_CountIsRhpRoots ==
  (Returned /\ n \in 2..4 /\ coeffs[1] # 0) => sign_changes = RhpRoots(coeffs)

\* the same statement without the inputs of Large
C4_OnEnumerated ==
  (Returned /\ n \in 2..4 /\ coeffs[1] # 0 /\ coeffs \in Enumerated) =>
     sign_changes = RhpRoots(coeffs)

C6_RecordedRuns ==
  /\ (Returned /\ coeffs = Example1) =>
        /\ routh = <<Ints(<<1, 2>>), Ints(<<-3, 0>>), Ints(<<2, 0>>)>>
        /\ sign_changes = 2
  /\ (Returned /\ coeffs = Example2) =>
        /\ routh = <<Ints(<<1, 3, 5>>), Ints(<<2, 4, 0>>), Ints(<<1, 5, 0>>),
                     Ints(<<-6, 0, 0>>), Ints(<<5, 0, 0>>)>>
        /\ sign_changes = 2
  /\ (Returned /\ coeffs = Example3) =>
        /\ routh = <<Ints(<<1, 15, 15, 1>>), Ints(<<6, 20, 6, 0>>),
                     <<Frac(35, 3), Const(14), Const(1), Zero>>,
                     <<Frac(64, 5), Frac(192, 35), Zero, Zero>>,
                     Ints(<<9, 1, 0, 0>>),
                     <<Frac(256, 63), Zero, Zero, Zero>>,
                     Ints(<<1, 0, 0, 0>>)>>
        /\ sign_changes = 0

C6_Witness == Returned /\ coeffs = Example3 /\ Len(routh) = 7

\* ---------------------------------------------------------------------- C7
\* the rows computed so far, by the code's 0-based index
ComputedIdx == {r \in 2..(Len(computed) + 1) : TRUE}

\* x * p = p * b - a * d, on numerators and denominators
IsRouthEntry(x, a, b, p, d) ==
  LET lhs == [num |-> PMul(x.num, p.num), den |-> PMul(x.den, p.den)]
      pb  == [num |-> PMul(p.num, b.num), den |-> PMul(p.den, b.den)]
      ad  == [num |-> PMul(a.num, d.num), den |-> PMul(a.den, d.den)]
      rhs == [num |-> PAdd(PMul(pb.num, ad.den), PScale(-1, PMul(ad.num, pb.den))),
              den |-> PMul(pb.den, ad.den)]
  IN  PMul(lhs.num, rhs.den) = PMul(rhs.num, lhs.den)

DivisorsNonZero ==
  \A r \in ComputedIdx :
    LET p      == pivots[r - 1]
        stored == At(routh, r - 1, 0)
    IN  /\ p.num # << >> /\ p.den # << >>
        /\ p = (IF stored.num = << >> THEN eps ELSE stored)
        /\ \A j \in 0..(cols - 2) :
             /\ computed[r - 1][j + 1].den # << >>
             /\ IsRouthEntry(computed[r - 1][j + 1], At(routh, r - 2, 0),
                             At(routh, r - 2, j + 1), p, At(routh, r - 1, j + 1))

EarlierRowsKept == \A r \in 1..Len(routh) : r <= i => routh'[r] = routh[r]

\* C7: every divisor used in the row construction is non-zero (the stored
\* pivot, or eps when that is zero), the entry written is (p*b - a*d)/p, and
\* computing row i leaves rows 0..i-1, the zero pivot included, as they were.
C7_NoZeroDivisor == [](DivisorsNonZero) /\ [][EarlierRowsKept]_vars

C7_Witness ==
  /\ Returned
  /\ \E r \in ComputedIdx :
       /\ pivots[r - 1] = eps
       /\ At(routh, r - 1, 0) = Zero
       /\ DependsOnEps(At(routh, r, 0))

\* ---------------------------------------------------------------------- C8
\* x = y * m for an integer m
IsTimes(x, y, m) == PMul(x.num, y.den) = PScale(m, PMul(y.num, x.den))

\* C8: a computed row that is entirely zero is replaced, before the next row
\* is computed, by prev[k] * ((n - i) - 2k) for k = 0..c-1; any other computed
\* row is kept; the next row is computed from the row as replaced.
C8_RowOfZeros ==
  \A r \in ComputedIdx :
    LET crow == computed[r - 1]
    IN  /\ Len(routh[r + 1]) = cols
        /\ IF \A k \in 1..Len(crow) : crow[k].num = << >>
           THEN \A k \in 0..(cols - 1) :
                  IsTimes(At(routh, r, k), At(routh, r - 1, k), (n - r) - 2 * k)
           ELSE routh[r + 1] = crow
        /\ (r + 1) \in ComputedIdx =>
             LET p == pivots[r]
             IN  /\ p = (IF At(routh, r, 0).num = << >> THEN eps ELSE At(routh, r, 0))
                 /\ \A j \in 0..(cols - 2) :
                      IsRouthEntry(computed[r][j + 1], At(routh, r - 1, 0),
                                   At(routh, r - 1, j + 1), p, At(routh, r, j + 1))

C8_Witness ==
  /\ Returned
  /\ \E r \in ComputedIdx :
       /\ (r + 1) \in ComputedIdx
       /\ \A k \in 1..cols : computed[r - 1][k] = Zero
       /\ routh[r + 1][1] # Zero
       /\ \E k \in 2..cols : routh[r][k] # Zero

\* ---------------------------------------------------------------------- C9
\* C9: a first-column entry that depends on eps contributes the sign of its
\* one-sided limit as eps -> 0+.
C9_LimitSign ==
  Returned =>
    signs = SelectSeq([r \in 1..Len(routh) |-> LimitSign(routh[r][1])], LAMBDA v : v # 0)

\* the same statement without the inputs of Large
C9_OnEnumerated == coeffs \notin Large => C9_LimitSign

\* --------------------------------------------------------------------- C10
\* pairs of rows p < q of the column whose entries are both not exactly zero,
\* differ in sign, and have only exactly-zero entries between them
AdjacentChanges(col) ==
  {pq \in (1..Len(col)) \X (1..Len(col)) :
     /\ pq[1] < pq[2]
     /\ col[pq[1]].num # << >>
     /\ col[pq[2]].num # << >>
     /\ LimitSign(col[pq[1]]) # LimitSign(col[pq[2]])
     /\ \A m \in (pq[1] + 1)..(pq[2] - 1) : col[m].num = << >>}

\* C10: the count is the number of adjacent pairs of different sign in the
\* first column of the returned array once its exactly-zero entries are
\* removed; it lies between 0 and n-1.
C10_CountsAdjacentChanges ==
  Returned =>
    /\ sign_changes = Cardinality(AdjacentChanges([r \in 1..Len(routh) |-> routh[r][1]]))
    /\ sign_changes \in 0..(n - 1)

\* the same statement without the inputs of Large
C10_OnEnumerated == coeffs \notin Large => C10_CountsAdjacentChanges
====
